---- MODULE Spec2Model ----
(***************************************************************************)
(* Limbo: the LP-based coloring core (limbo/algorithms/coloring/           *)
(* LPColoring.h) and the dual min-cost-flow LP core (limbo/solvers/        *)
(* DualMinCostFlow.h) as state machines.                                   *)
(*                                                                         *)
(* LP values are kept in units of 1/2: a color bit holds 0, 1 or 2 for the *)
(* doubles 0.0, 0.5 and 1.0, which are the only values the code tells      *)
(* apart (is_integer, value == 0.5, round).  The LP engine is the external *)
(* collaborator: an optimize call returns any point of that grid that is   *)
(* feasible and has the least objective value among the feasible points.   *)
(***************************************************************************)
EXTENDS Integers, Sequences, FiniteSets, TLC

\* most vertices of the conflict graphs coloring() is run on
MaxVertices == 3

\* most vertices of the graphs post_refinement is run on from any coloring
MaxRefineVertices == 4

\* the initial NonIntegerInfo counters: std::numeric_limits<uint32_t>::max().
\* Only its order against the counts (at most 2|V|) is used; the largest
\* integer the model checker represents, 2^31 - 1, stands for 2^32 - 1
UINT32_MAX == 2147483647

VARIABLES
    pc,            \* position in LPColoring::coloring()
    numVertices,   \* boost::num_vertices(m_graph)
    edges,         \* boost::edges(m_graph), in iteration order, <<s, t>>
    color_num,     \* "THREE" or "FOUR"
    m_vColor,      \* color of each vertex, -1 when not colored
    m_has_precolored, \* Coloring::has_precolored()
    lb, ub,        \* bounds of vColorBits (units of 1/2)
    constrs,       \* constraints of optModel, in the order they were added
    obj,           \* coefficients of the objective on vColorBits
    X,             \* GRB_DoubleAttr_X of vColorBits after the last optimize
    prevInfo,      \* prevInfo.vertex_non_integer_num of the running loop
    curInfo,       \* curInfo.vertex_non_integer_num of the running loop
    edgeIdx,       \* post_refinement: index of the next edge to refine
    count,         \* post_refinement: number of refine_color calls returning true
    refinerIters,  \* times the body of the loop of coloring() was executed
    rounderIters,  \* times the body of the rounder loop was executed
    mcfPc,         \* position in DualMinCostFlow::solve()
    m_model,       \* the linear model: objective, bounds, constraints, solution
    m_graph,       \* arcs of the flow graph, <<source, target>>, nodes 0 .. n
    m_mUpper,      \* upper bound of flow of each arc
    m_mCost,       \* cost of each arc
    m_mSupply,     \* supply of each node
    m_totalFlowCost, \* total cost after solving
    m_bigM,        \* a big number for infinity
    m_reversedArcFlowCost, \* normalized flow cost of the reversed arcs
    m_mFlow,       \* flow of each arc, as the engine returned it
    m_mPotential,  \* potential of each node, as the engine returned it
    engineStatus,  \* status returned by the MinCostFlowSolver
    returnStatus,  \* status returned by solve()
    conIdx,        \* mapDiffConstraint2Graph: index of the next constraint
    bndIdx,        \* mapBoundConstraint2Graph: index of the next bound
    numApplied,    \* times applySolution has written the solution slots
    dfsPc,         \* position in get_odd_cycles: "none", "while", "done"
    dfsRoot,       \* get_odd_cycles: the argument v
    vVertexStack,  \* get_odd_cycles: stack for DFS
    vNodeDistColor, \* get_odd_cycles: distance parity of each vertex, -1 unseen
    vNodeVisited,  \* get_odd_cycles: visiting flag of each vertex
    vInCycle,      \* get_odd_cycles: inCycle flag of each vertex
    vOddCyle       \* get_odd_cycles: the odd cycles returned

colorVars == <<pc, numVertices, edges, color_num, m_vColor, m_has_precolored,
               lb, ub, constrs, obj,
               X, prevInfo, curInfo, edgeIdx, count, refinerIters, rounderIters>>

mcfVars == <<mcfPc, m_model, m_graph, m_mUpper, m_mCost, m_mSupply,
             m_totalFlowCost, m_bigM, m_reversedArcFlowCost, m_mFlow,
             m_mPotential, engineStatus, returnStatus, conIdx, bndIdx,
             numApplied>>

dfsVars == <<dfsPc, dfsRoot, vVertexStack, vNodeDistColor, vNodeVisited,
             vInCycle, vOddCyle>>

vars == <<colorVars, mcfVars, dfsVars>>

\* no call of get_odd_cycles is shown step by step
NoOddCycleSearch ==
    /\ dfsPc = "none"
    /\ dfsRoot = 0
    /\ vVertexStack = << >>
    /\ vNodeDistColor = << >>
    /\ vNodeVisited = << >>
    /\ vInCycle = << >>
    /\ vOddCyle = << >>

\* no DualMinCostFlow object exists while LPColoring runs
NoDualMinCostFlow ==
    /\ mcfPc = "none"
    /\ m_model = << >>
    /\ m_graph = << >>
    /\ m_mUpper = << >>
    /\ m_mCost = << >>
    /\ m_mSupply = << >>
    /\ m_totalFlowCost = 0
    /\ m_bigM = 0
    /\ m_reversedArcFlowCost = 0
    /\ m_mFlow = << >>
    /\ m_mPotential = << >>
    /\ engineStatus = "NONE"
    /\ returnStatus = "NONE"
    /\ conIdx = 1
    /\ bndIdx = 1
    /\ numApplied = 0

----------------------------------------------------------------------------
(* Conflict graph *)

Vertices(n) == 0 .. (n - 1)

\* the color bits of n vertices: vertex v owns bits 2v (b1) and 2v+1 (b2)
ColorBits(n) == 0 .. (2 * n - 1)

AllPairs(n) == {p \in Vertices(n) \X Vertices(n) : p[1] < p[2]}

PairLess(p, q) == p[1] < q[1] \/ (p[1] = q[1] /\ p[2] < q[2])

\* the edges of a set, as the sequence boost::edges iterates
RECURSIVE EdgeSeq(_)
EdgeSeq(S) ==
    IF S = {} THEN << >>
    ELSE LET m == CHOOSE p \in S : \A q \in S \ {p} : PairLess(p, q)
         IN  <<m>> \o EdgeSeq(S \ {m})

\* boost::adjacent_vertices(v, m_graph), in iteration order
Adjacent(es, v) ==
    LET inc == SelectSeq(es, LAMBDA e : e[1] = v \/ e[2] = v)
    IN  [k \in 1 .. Len(inc) |-> IF inc[k][1] = v THEN inc[k][2] ELSE inc[k][1]]

AdjacentSet(es, v) == {Adjacent(es, v)[k] : k \in 1 .. Len(Adjacent(es, v))}

----------------------------------------------------------------------------
(* The LP model: constraints sum_k coeff[k] * x[k]  sense  rhs, as the LP  *)
(* engine stores them once the constant terms are moved to the right.      *)

Constr(n, terms, sense, rhs) ==
    [coeff |-> [k \in ColorBits(n) |->
                   IF k \in DOMAIN terms THEN terms[k] ELSE 0],
     sense |-> sense,
     rhs   |-> rhs]

RECURSIVE SumOver(_, _)
SumOver(f, S) ==
    IF S = {} THEN 0
    ELSE LET k == CHOOSE k \in S : TRUE
         IN  f[k] + SumOver(f, S \ {k})

\* twice the left-hand side of c at the point x (x is in units of 1/2)
Lhs2(c, x) == SumOver([k \in DOMAIN x |-> c.coeff[k] * x[k]], DOMAIN x)

Satisfies(c, x) ==
    IF c.sense = ">" THEN Lhs2(c, x) >= 2 * c.rhs
                     ELSE Lhs2(c, x) <= 2 * c.rhs

\* GRB_DoubleAttr_Slack of c at x is zero
Binding(c, x) == Lhs2(c, x) = 2 * c.rhs

\* CoverConstraints with the "1 -" of vColorBits[bitIdxT] lost in the second one
CoverConstraintsLostComplement(n, s, t) ==
    LET s1 == 2 * s
        s2 == 2 * s + 1
        t1 == 2 * t
        t2 == 2 * t + 1
    IN  << Constr(n, (s1 :> 1)  @@ (s2 :> 1)  @@ (t1 :> 1)  @@ (t2 :> 1),  ">", 1),
           Constr(n, (s1 :> -1) @@ (s2 :> 1)  @@ (t1 :> 1)  @@ (t2 :> 1),  ">", 0),
           Constr(n, (s1 :> 1)  @@ (s2 :> -1) @@ (t1 :> 1)  @@ (t2 :> -1), ">", -1),
           Constr(n, (s1 :> -1) @@ (s2 :> -1) @@ (t1 :> -1) @@ (t2 :> -1), ">", -3) >>

\* the four constraints set_optimize_model adds for the edge (s, t)
CoverConstraints(n, s, t) ==
    LET s1 == 2 * s
        s2 == 2 * s + 1
        t1 == 2 * t
        t2 == 2 * t + 1
    IN  << Constr(n, (s1 :> 1)  @@ (s2 :> 1)  @@ (t1 :> 1)  @@ (t2 :> 1),  ">", 1),
           Constr(n, (s1 :> -1) @@ (s2 :> 1)  @@ (t1 :> -1) @@ (t2 :> 1),  ">", -1),
           Constr(n, (s1 :> 1)  @@ (s2 :> -1) @@ (t1 :> 1)  @@ (t2 :> -1), ">", -1),
           Constr(n, (s1 :> -1) @@ (s2 :> -1) @@ (t1 :> -1) @@ (t2 :> -1), ">", -3) >>

RECURSIVE EdgeConstraints(_, _, _)
EdgeConstraints(n, es, k) ==
    IF k > Len(es) THEN << >>
    ELSE CoverConstraints(n, es[k][1], es[k][2]) \o EdgeConstraints(n, es, k + 1)

\* ThreeColorConstraints with the right-hand side 0
ThreeColorConstraintsTight(n) ==
    [v1 \in 1 .. n |->
        Constr(n, ((2 * (v1 - 1)) :> 1) @@ ((2 * (v1 - 1) + 1) :> 1), "<", 0)]

\* the constraint b1 + b2 <= 1 of every vertex, added when color_num is THREE
ThreeColorConstraints(n) ==
    [v1 \in 1 .. n |->
        Constr(n, ((2 * (v1 - 1)) :> 1) @@ ((2 * (v1 - 1) + 1) :> 1), "<", 1)]

\* LPColoring::max_degree_vertex
Degree(es, v) == Len(Adjacent(es, v))

\* lines 236-245: the loop over boost::vertices from vertex v on, with the
\* running u and maxDegree
RECURSIVE MaxDegreeScan(_, _, _, _, _)
MaxDegreeScan(n, es, v, u, maxDegree) ==
    IF v >= n THEN u
    ELSE IF Degree(es, v) > maxDegree
    THEN MaxDegreeScan(n, es, v + 1, v, Degree(es, v))
    ELSE MaxDegreeScan(n, es, v + 1, u, maxDegree)

max_degree_vertex(n, es) == MaxDegreeScan(n, es, 0, 0, 0)

----------------------------------------------------------------------------
(* The LP engine *)

\* the points of the grid within the variable bounds
Box(lo, hi) == [k \in DOMAIN lo |-> lo[k] .. hi[k]]

RECURSIVE Points(_, _)
Points(box, ks) ==
    IF ks = {} THEN { << >> }
    ELSE LET k == CHOOSE k \in ks : \A j \in ks : j <= k
         IN  { p @@ (k :> v) : p \in Points(box, ks \ {k}), v \in box[k] }

Feasible(lo, hi, cs) ==
    { x \in Points(Box(lo, hi), DOMAIN lo) :
        \A j \in 1 .. Len(cs) : Satisfies(cs[j], x) }

ObjValue2(o, x) == SumOver([k \in DOMAIN x |-> o[k] * x[k]], DOMAIN x)

\* the solutions optModel.optimize() may leave in GRB_DoubleAttr_X
Optimal(lo, hi, cs, o) ==
    LET F    == Feasible(lo, hi, cs)
        vals == { ObjValue2(o, x) : x \in F }
        best == CHOOSE m \in vals : \A w \in vals : m <= w
    IN  IF F = {} THEN {} ELSE { x \in F : ObjValue2(o, x) = best }

\* is_integer(value), and the test of non_integer_num (value != 0.0 && != 1.0)
is_integer(value) == value \in {0, 2}

\* non_integer_num over vColorBits: the vertex_non_integer_num it computes
non_integer_num(x) == Cardinality({ k \in DOMAIN x : x[k] # 0 /\ x[k] # 2 })

----------------------------------------------------------------------------
(* LPColoring::get_odd_cycles: the DFS from the root v *)

Top(stack) == stack[Len(stack)]

\* the stack from its top back to u (the whole stack when u is not on it)
RECURSIVE TraceCycle(_, _, _)
TraceCycle(stack, k, u) ==
    IF k < 1 THEN << >>
    ELSE IF stack[k] = u THEN << stack[k] >>
    ELSE << stack[k] >> \o TraceCycle(stack, k - 1, u)

SeqRange(q) == { q[k] : k \in 1 .. Len(q) }

\* lines 196-221: the scan of the neighbors of cv once nothing is left to push
RECURSIVE DetectOddCycles(_, _, _, _, _)
DetectOddCycles(st, v, cv, adj, k) ==
    IF k > Len(adj) THEN st
    ELSE LET u == adj[k]
         IN  IF st.visited[u] /\ st.dist[u] = st.dist[cv]
             THEN LET cycle == TraceCycle(st.stack, Len(st.stack), u)
                      inCyc == [w \in DOMAIN st.inCycle |->
                                   st.inCycle[w] \/ w = v \/ w \in SeqRange(cycle)]
                      st2   == [st EXCEPT !.inCycle = inCyc,
                                          !.out = IF cycle # << >> /\ inCyc[v]
                                                  THEN Append(@, cycle) ELSE @]
                  IN  DetectOddCycles(st2, v, cv, adj, k + 1)
             ELSE DetectOddCycles(st, v, cv, adj, k + 1)

\* lines 182-190: an unseen neighbor u of cv is pushed.  Line 185 assigns
\* true to vNodeDistColor[u] (the value 1), and vNodeVisited[u] stays false
PushUnseen(st, cv, u) ==
    LET d1 == [st.dist EXCEPT ![u] = 1 - st.dist[cv]]
        d2 == [d1 EXCEPT ![u] = 1]
    IN  [st EXCEPT !.dist = d2, !.stack = Append(@, u)]

RECURSIVE DfsLoop(_, _, _)
DfsLoop(es, v, st) ==
    IF st.stack = << >> THEN st.out
    ELSE LET cv     == Top(st.stack)
             adj    == Adjacent(es, cv)
             unseen == { k \in 1 .. Len(adj) : st.dist[adj[k]] = -1 }
         IN  IF unseen # {}
             THEN LET k == CHOOSE k \in unseen : \A j \in unseen : k <= j
                  IN  DfsLoop(es, v, PushUnseen(st, cv, adj[k]))
             ELSE LET st2 == DetectOddCycles(st, v, cv, adj, 1)
                  IN  DfsLoop(es, v,
                          [st2 EXCEPT !.stack = SubSeq(@, 1, Len(@) - 1),
                                      !.visited[cv] = FALSE])

get_odd_cycles(n, es, v) ==
    DfsLoop(es, v,
        [stack   |-> << v >>,
         dist    |-> [w \in Vertices(n) |-> IF w = v THEN 0 ELSE -1],
         visited |-> [w \in Vertices(n) |-> w = v],
         inCycle |-> [w \in Vertices(n) |-> FALSE],
         out     |-> << >>])

\* OddCycleConstraints with the right-hand side 2 in the two >= constraints
OddCycleConstraintsTwo(n, oddCycle) ==
    LET L  == Len(oddCycle)
        c1 == [k \in ColorBits(n) |->
                  Cardinality({ j \in 1 .. L : 2 * oddCycle[j] = k })]
        c2 == [k \in ColorBits(n) |->
                  Cardinality({ j \in 1 .. L : 2 * oddCycle[j] + 1 = k })]
    IN  << [coeff |-> c1, sense |-> ">", rhs |-> 2],
           [coeff |-> c1, sense |-> "<", rhs |-> L - 1],
           [coeff |-> c2, sense |-> ">", rhs |-> 2],
           [coeff |-> c2, sense |-> "<", rhs |-> L - 1] >>

\* lines 404-426: the four constraints of one odd cycle
OddCycleConstraints(n, oddCycle) ==
    LET L  == Len(oddCycle)
        c1 == [k \in ColorBits(n) |->
                  Cardinality({ j \in 1 .. L : 2 * oddCycle[j] = k })]
        c2 == [k \in ColorBits(n) |->
                  Cardinality({ j \in 1 .. L : 2 * oddCycle[j] + 1 = k })]
    IN  << [coeff |-> c1, sense |-> ">", rhs |-> 1],
           [coeff |-> c1, sense |-> "<", rhs |-> L - 1],
           [coeff |-> c2, sense |-> ">", rhs |-> 1],
           [coeff |-> c2, sense |-> "<", rhs |-> L - 1] >>

RECURSIVE CyclesConstraints(_, _, _)
CyclesConstraints(n, cycles, k) ==
    IF k > Len(cycles) THEN << >>
    ELSE OddCycleConstraints(n, cycles[k]) \o CyclesConstraints(n, cycles, k + 1)

\* LPColoring::add_odd_cycle_constraints: the constraints it adds
RECURSIVE add_odd_cycle_constraints(_, _, _)
add_odd_cycle_constraints(n, es, v) ==
    IF v >= n THEN << >>
    ELSE CyclesConstraints(n, get_odd_cycles(n, es, v), 1)
            \o add_odd_cycle_constraints(n, es, v + 1)

----------------------------------------------------------------------------
(* The objective terms of the refiner *)

\* adjust_variable_pair_in_objective with "else" in place of
\* "else if (value1 < value2)": equal values add v1 - v2 too
adjust_variable_pair_in_objectiveElse(n, x, o) ==
    [k \in ColorBits(n) |->
        LET k1     == IF k % 2 = 0 THEN k ELSE k - 1
            value1 == x[k1]
            value2 == x[k1 + 1]
            t1     == IF ~is_integer(value1) \/ ~is_integer(value2)
                      THEN IF value1 > value2 THEN -1 ELSE 1
                      ELSE 0
        IN  o[k] + (IF k = k1 THEN t1 ELSE -t1)]

\* LPColoring::adjust_variable_pair_in_objective
adjust_variable_pair_in_objective(n, x, o) ==
    [k \in ColorBits(n) |->
        LET k1     == IF k % 2 = 0 THEN k ELSE k - 1
            value1 == x[k1]
            value2 == x[k1 + 1]
            \* the term added on vColorBits[k1]; vColorBits[k1+1] gets its opposite
            t1     == IF ~is_integer(value1) \/ ~is_integer(value2)
                      THEN IF value1 > value2 THEN -1
                           ELSE IF value1 < value2 THEN 1 ELSE 0
                      ELSE 0
        IN  o[k] + (IF k = k1 THEN t1 ELSE -t1)]

\* lines 376-388 for one edge: the terms added on the bits of s and of t
EdgeTerm(x, s, t, i, k) ==
    LET bitIdxS == 2 * s + i
        bitIdxT == 2 * t + i
        value1  == x[bitIdxS]
        value2  == x[bitIdxT]
        \* the term added on vColorBits[bitIdxS]; bitIdxT gets its opposite
        tS      == IF value1 > value2 THEN -1
                   ELSE IF value1 < value2 THEN 1 ELSE 0
    IN  IF k = bitIdxS THEN tS ELSE IF k = bitIdxT THEN -tS ELSE 0

\* LPColoring::adjust_conflict_edge_vertices_in_objective
RECURSIVE adjust_conflict_edge_vertices_in_objective(_, _, _, _, _)
adjust_conflict_edge_vertices_in_objective(n, es, x, o, j) ==
    IF j > Len(es) THEN o
    ELSE adjust_conflict_edge_vertices_in_objective(n, es, x,
            [k \in ColorBits(n) |->
                o[k] + EdgeTerm(x, es[j][1], es[j][2], 0, k)
                     + EdgeTerm(x, es[j][1], es[j][2], 1, k)],
            j + 1)

----------------------------------------------------------------------------
(* LPColoring::rounding_with_binding_analysis, for one pair of color bits *)

\* ConstrVariableInfo::same_direction
same_direction(this, rhs) ==
    IF this.coeff = 0 \/ rhs.coeff = 0 THEN TRUE
    ELSE IF this.sense = rhs.sense
         THEN (this.coeff > 0 /\ rhs.coeff > 0) \/ (this.coeff < 0 /\ rhs.coeff < 0)
         ELSE (this.coeff > 0 /\ rhs.coeff < 0) \/ (this.coeff < 0 /\ rhs.coeff > 0)

\* optModel.getCol(var): the constraints var appears in, in constraint order
Column(cs, var) ==
    SelectSeq([j \in 1 .. Len(cs) |-> j], LAMBDA j : cs[j].coeff[var] # 0)

CandidatePairs == << <<0, 0>>, <<0, 1>>, <<1, 0>>, <<1, 1>> >>

\* twice delta of line 580 for the candidate (b1, b2)
Delta2(info, b, value1, value2) ==
    info[1].coeff * (2 * b[1] - value1) + info[2].coeff * (2 * b[2] - value2)

\* lines 575-587: the candidates one binding constraint leaves valid
CheckCandidates(valid, info, sense, value1, value2) ==
    [b \in DOMAIN valid |->
        /\ valid[b]
        /\ ~ \/ (sense = ">" /\ Delta2(info, b, value1, value2) < 0)
             \/ (sense = "<" /\ Delta2(info, b, value1, value2) > 0)]

\* lines 556-598: the scan of column[0] and then column[1]; it stops at failFlag
RECURSIVE ScanColumns(_, _, _, _, _, _, _)
ScanColumns(cs, x, col, k, var1, var2, r) ==
    IF k > Len(col) \/ r.failFlag THEN r
    ELSE LET constr == cs[col[k]]
             cur    == << [coeff |-> constr.coeff[var1], sense |-> constr.sense],
                          [coeff |-> constr.coeff[var2], sense |-> constr.sense] >>
         IN  IF ~Binding(constr, x)
             THEN ScanColumns(cs, x, col, k + 1, var1, var2, r)
             ELSE IF ~same_direction(cur[1], r.prev[1])
                     \/ ~same_direction(cur[2], r.prev[2])
             THEN [r EXCEPT !.failFlag = TRUE]
             ELSE LET valid2 == CheckCandidates(r.valid, cur, constr.sense,
                                                x[var1], x[var2])
                      inv2   == r.invalidCount +
                                Cardinality({ b \in DOMAIN valid2 :
                                                r.valid[b] /\ ~valid2[b] })
                  IN  IF inv2 = 4
                      THEN [r EXCEPT !.valid = valid2, !.invalidCount = inv2,
                                     !.failFlag = TRUE]
                      ELSE ScanColumns(cs, x, col, k + 1, var1, var2,
                               [r EXCEPT !.valid = valid2, !.invalidCount = inv2,
                                         !.prev = cur])

\* the scan of the pair (var1, var1 + 1): mValidColorBits, invalidCount, failFlag
ScanPair(cs, x, cn, var1) ==
    ScanColumns(cs, x, Column(cs, var1) \o Column(cs, var1 + 1), 1, var1, var1 + 1,
        [valid        |-> [b \in { CandidatePairs[j] : j \in 1 .. 4 } |->
                              ~(cn = "THREE" /\ b = <<1, 1>>)],
         invalidCount |-> 0,
         failFlag     |-> FALSE,
         prev         |-> << [coeff |-> 0, sense |-> ">"],
                             [coeff |-> 0, sense |-> ">"] >>])

\* ApplyCandidates without the test of mValidColorBits[b1][b2]
RECURSIVE ApplyCandidatesUnchecked(_, _, _, _)
ApplyCandidatesUnchecked(r, j, var1, bnd) ==
    IF j > 4 THEN bnd
    ELSE LET b == CandidatePairs[j]
         IN  ApplyCandidatesUnchecked(r, j + 1, var1,
                 [bnd EXCEPT ![var1] = 2 * b[1], ![var1 + 1] = 2 * b[2]])

\* lines 601-612: every valid candidate is written to the bounds, in the order
\* (0,0), (0,1), (1,0), (1,1); the value left is the one written last
RECURSIVE ApplyCandidates(_, _, _, _)
ApplyCandidates(r, j, var1, bnd) ==
    IF j > 4 THEN bnd
    ELSE LET b == CandidatePairs[j]
         IN  ApplyCandidates(r, j + 1, var1,
                 IF r.valid[b]
                 THEN [bnd EXCEPT ![var1] = 2 * b[1], ![var1 + 1] = 2 * b[2]]
                 ELSE bnd)

\* lines 528-613: the bounds (lower and upper alike) after all pairs are scanned
RECURSIVE RoundPairs(_, _, _, _, _)
RoundPairs(cs, x, cn, i, bnd) ==
    IF i >= Cardinality(DOMAIN x) THEN bnd
    ELSE IF ~(x[i] = 1 /\ x[i + 1] = 1)
    THEN RoundPairs(cs, x, cn, i + 2, bnd)
    ELSE LET r == ScanPair(cs, x, cn, i)
         IN  RoundPairs(cs, x, cn, i + 2,
                 IF r.failFlag THEN bnd
                 ELSE [lo |-> ApplyCandidates(r, 1, i, bnd.lo),
                       hi |-> ApplyCandidates(r, 1, i, bnd.hi)])

----------------------------------------------------------------------------
(* LPColoring::apply_solution and the greedy refinement *)

\* round() of a value of the grid: 0.5 rounds away from zero
Round(value) == IF value >= 1 THEN 1 ELSE 0

apply_solution(n, x) ==
    [i \in Vertices(n) |-> 2 * Round(x[2 * i]) + Round(x[2 * i + 1])]

\* mValidColors[c1][c2]; the array has two rows, and a read of row 2 or 3 is
\* out of bounds and yields oob
ValidAt(m, c1, c2, oob) == IF c1 <= 1 THEN m[c1][c2] ELSE oob

\* lines 660-671: the colors of the other neighbors of both endpoints are
\* cleared in row 0
MarkNeighbors(es, col, v0, v1, m) ==
    LET used == { col[u] : u \in AdjacentSet(es, v0) \ {v1} }
                \cup { col[u] : u \in AdjacentSet(es, v1) \ {v0} }
    IN  [m EXCEPT ![0] = [c \in DOMAIN m[0] |-> m[0][c] /\ c \notin used]]

\* lines 655-680, the pairs (c1, c2) taken in order from position p = 4*c1 + c2
RECURSIVE RefineSearch(_, _, _, _, _, _, _)
RefineSearch(es, col, v0, v1, m, p, oob) ==
    LET c1 == p \div 4
        c2 == p % 4
    IN  IF p > 15 THEN [color |-> col, ret |-> FALSE]
        ELSE IF c1 # c2 /\ ValidAt(m, c1, c2, oob)
        THEN LET m2 == MarkNeighbors(es, col, v0, v1, m)
             IN  IF ValidAt(m2, c1, c2, oob)
                 THEN [color |-> [col EXCEPT ![v0] = c1, ![v1] = c2], ret |-> TRUE]
                 ELSE RefineSearch(es, col, v0, v1, m2, p + 1, oob)
        ELSE RefineSearch(es, col, v0, v1, m, p + 1, oob)

\* LPColoring::refine_color(e): the colors it leaves and the value it returns
refine_color(es, col, cn, e, oob) ==
    IF col[e[1]] # col[e[2]] THEN [color |-> col, ret |-> FALSE]
    ELSE RefineSearch(es, col, e[1], e[2],
             [i \in 0 .. 1 |-> [c \in 0 .. 3 |-> ~(cn = "THREE" /\ c = 3)]],
             0, oob)

----------------------------------------------------------------------------
(* LPColoring::coloring(), step by step *)

Graphs(n) == { EdgeSeq(S) : S \in SUBSET AllPairs(n) }

Init ==
    /\ pc = "set_optimize_model"
    /\ numVertices \in 1 .. MaxVertices
    /\ edges \in Graphs(numVertices)
    /\ color_num \in {"THREE", "FOUR"}
    /\ m_vColor = [v \in Vertices(numVertices) |-> -1]
    /\ m_has_precolored = FALSE
    /\ lb = << >>
    /\ ub = << >>
    /\ constrs = << >>
    /\ obj = << >>
    /\ X = << >>
    /\ prevInfo = UINT32_MAX
    /\ curInfo = UINT32_MAX
    /\ edgeIdx = 1
    /\ count = 0
    /\ refinerIters = 0
    /\ rounderIters = 0
    /\ NoDualMinCostFlow
    /\ NoOddCycleSearch

\* lines 250-331
SetOptimizeModel ==
    /\ pc = "set_optimize_model"
    /\ lb' = [k \in ColorBits(numVertices) |-> 0]
    /\ ub' = [k \in ColorBits(numVertices) |-> 2]
    /\ obj' = [k \in ColorBits(numVertices) |-> 0]
    /\ constrs' = EdgeConstraints(numVertices, edges, 1)
                    \o (IF color_num = "THREE"
                        THEN ThreeColorConstraints(numVertices) ELSE << >>)
    /\ pc' = "set_anchor"
    /\ UNCHANGED <<mcfVars, dfsVars>>
    /\ UNCHANGED <<numVertices, edges, color_num, m_vColor, m_has_precolored, X,
                   prevInfo, curInfo, edgeIdx, count, refinerIters, rounderIters>>

\* AnchorBounds with the test of has_precolored() dropped
AnchorBoundsAlways(bnd) ==
    LET bitIdxAnchor == 2 * max_degree_vertex(numVertices, edges)
    IN  [bnd EXCEPT ![bitIdxAnchor] = 0, ![bitIdxAnchor + 1] = 0]

\* the bounds set_anchor leaves (lower and upper alike)
AnchorBounds(bnd) ==
    IF m_has_precolored THEN bnd
    ELSE LET bitIdxAnchor == 2 * max_degree_vertex(numVertices, edges)
         IN  [bnd EXCEPT ![bitIdxAnchor] = 0, ![bitIdxAnchor + 1] = 0]

\* lines 333-345
SetAnchor ==
    /\ pc = "set_anchor"
    /\ lb' = AnchorBounds(lb)
    /\ ub' = AnchorBounds(ub)
    /\ pc' = "optimize"
    /\ UNCHANGED <<mcfVars, dfsVars>>
    /\ UNCHANGED <<numVertices, edges, color_num, m_vColor, m_has_precolored,
                   constrs, obj, X, prevInfo, curInfo, edgeIdx, count,
                   refinerIters, rounderIters>>

\* lines 457-463: the first optimize, the assertion and the first census
OptimizeInitial ==
    /\ pc = "optimize"
    /\ LET sols == Optimal(lb, ub, constrs, obj)
       IN  IF sols = {}
           THEN /\ pc' = "infeasible"
                /\ UNCHANGED <<X, prevInfo, curInfo>>
           ELSE /\ \E x \in sols :
                     /\ X' = x
                     /\ curInfo' = non_integer_num(x)
                /\ prevInfo' = UINT32_MAX
                /\ pc' = "refiner"
    /\ UNCHANGED <<mcfVars, dfsVars>>
    /\ UNCHANGED <<numVertices, edges, color_num, m_vColor, m_has_precolored,
                   lb, ub, constrs, obj, edgeIdx, count, refinerIters,
                   rounderIters>>

\* LoopCondition going on while the count does not increase
LoopConditionNotStrict(cur, prev) == cur > 0 /\ cur <= prev

\* the condition of both while loops (lines 465 and 526)
LoopCondition(cur, prev) == cur > 0 /\ cur < prev

\* lines 465-489: one execution of the body of the iterative scheme
RefinerIteration ==
    /\ pc = "refiner"
    /\ LoopCondition(curInfo, prevInfo)
    /\ LET obj1 == adjust_variable_pair_in_objective(numVertices, X, obj)
           obj2 == adjust_conflict_edge_vertices_in_objective(
                       numVertices, edges, X, obj1, 1)
           cs2  == constrs \o add_odd_cycle_constraints(numVertices, edges, 0)
           sols == Optimal(lb, ub, cs2, obj2)
       IN  /\ obj' = obj2
           /\ constrs' = cs2
           /\ IF sols = {}
              THEN /\ pc' = "infeasible"
                   /\ UNCHANGED <<X, prevInfo, curInfo>>
              ELSE /\ \E x \in sols :
                        /\ X' = x
                        /\ curInfo' = non_integer_num(x)
                   /\ prevInfo' = curInfo
                   /\ pc' = "refiner"
    /\ refinerIters' = refinerIters + 1
    /\ UNCHANGED <<mcfVars, dfsVars>>
    /\ UNCHANGED <<numVertices, edges, color_num, m_vColor, m_has_precolored,
                   lb, ub, edgeIdx, count, rounderIters>>

\* lines 489-524: the loop ends and rounding_with_binding_analysis starts
RefinerExit ==
    /\ pc = "refiner"
    /\ ~LoopCondition(curInfo, prevInfo)
    /\ prevInfo' = UINT32_MAX
    /\ curInfo' = non_integer_num(X)
    /\ pc' = "rounder"
    /\ UNCHANGED <<mcfVars, dfsVars>>
    /\ UNCHANGED <<numVertices, edges, color_num, m_vColor, m_has_precolored,
                   lb, ub, constrs, obj, X, edgeIdx, count, refinerIters,
                   rounderIters>>

\* lines 526-617: one execution of the body of the loop of the rounder
RounderIteration ==
    /\ pc = "rounder"
    /\ LoopCondition(curInfo, prevInfo)
    /\ LET bnd == RoundPairs(constrs, X, color_num, 0, [lo |-> lb, hi |-> ub])
       IN  /\ lb' = bnd.lo
           /\ ub' = bnd.hi
    /\ prevInfo' = curInfo
    /\ curInfo' = non_integer_num(X)
    /\ rounderIters' = rounderIters + 1
    /\ UNCHANGED <<mcfVars, dfsVars>>
    /\ UNCHANGED <<pc, numVertices, edges, color_num, m_vColor, m_has_precolored,
                   constrs, obj, X, edgeIdx, count, refinerIters>>

\* lines 494 and 505-515: the rounder returns and the solution is applied
ApplySolution ==
    /\ pc = "rounder"
    /\ ~LoopCondition(curInfo, prevInfo)
    /\ m_vColor' = apply_solution(numVertices, X)
    /\ pc' = "post_refinement"
    /\ edgeIdx' = 1
    /\ count' = 0
    /\ UNCHANGED <<mcfVars, dfsVars>>
    /\ UNCHANGED <<numVertices, edges, color_num, m_has_precolored, lb, ub,
                   constrs, obj, X, prevInfo, curInfo, refinerIters, rounderIters>>

\* lines 629-630: refine_color on the next edge
RefineColor ==
    /\ pc = "post_refinement"
    /\ ~m_has_precolored
    /\ edgeIdx <= Len(edges)
    /\ \E oob \in BOOLEAN :
         LET r == refine_color(edges, m_vColor, color_num, edges[edgeIdx], oob)
         IN  /\ m_vColor' = r.color
             /\ count' = count + (IF r.ret THEN 1 ELSE 0)
    /\ edgeIdx' = edgeIdx + 1
    /\ UNCHANGED <<mcfVars, dfsVars>>
    /\ UNCHANGED <<pc, numVertices, edges, color_num, m_has_precolored, lb, ub,
                   constrs, obj, X, prevInfo, curInfo, refinerIters, rounderIters>>

\* lines 625-633 and 501: post_refinement returns, and coloring() with it
PostRefinementReturn ==
    /\ pc = "post_refinement"
    /\ m_has_precolored \/ edgeIdx > Len(edges)
    /\ pc' = "done"
    /\ UNCHANGED <<mcfVars, dfsVars>>
    /\ UNCHANGED <<numVertices, edges, color_num, m_vColor, m_has_precolored,
                   lb, ub, constrs, obj, X, prevInfo, curInfo, edgeIdx, count,
                   refinerIters, rounderIters>>

Next ==
    \/ SetOptimizeModel
    \/ SetAnchor
    \/ OptimizeInitial
    \/ RefinerIteration
    \/ RefinerExit
    \/ RounderIteration
    \/ ApplySolution
    \/ RefineColor
    \/ PostRefinementReturn

Spec == Init /\ [][Next]_vars

\* the model builder on its own: coloring() up to its first optimize
NextModelBuilder ==
    \/ SetOptimizeModel
    \/ SetAnchor
    \/ OptimizeInitial

SpecModelBuilder == Init /\ [][NextModelBuilder]_vars

----------------------------------------------------------------------------
(* coloring() on graphs with precolored vertices *)

\* most vertices of the precolored graphs coloring() is run on
MaxPrecoloredVertices == 2

\* the colors a vertex can be precolored to; -1 is "not colored"
Precolors(cn) == IF cn = "THREE" THEN -1 .. 2 ELSE -1 .. 3

\* a graph of n vertices, some of them precolored, before coloring() starts
InitGraph(maxN) ==
    /\ pc = "set_optimize_model"
    /\ numVertices \in 1 .. maxN
    /\ edges \in Graphs(numVertices)
    /\ color_num \in {"THREE", "FOUR"}
    /\ m_vColor \in [Vertices(numVertices) -> Precolors(color_num)]
    /\ m_has_precolored = (\E v \in Vertices(numVertices) : m_vColor[v] >= 0)
    /\ lb = << >>
    /\ ub = << >>
    /\ constrs = << >>
    /\ obj = << >>
    /\ X = << >>
    /\ prevInfo = UINT32_MAX
    /\ curInfo = UINT32_MAX
    /\ edgeIdx = 1
    /\ count = 0
    /\ refinerIters = 0
    /\ rounderIters = 0
    /\ NoDualMinCostFlow
    /\ NoOddCycleSearch

\* set_optimize_model and set_anchor on their own, precolored or not
InitAnchor == InitGraph(MaxVertices)

NextAnchor ==
    \/ SetOptimizeModel
    \/ SetAnchor

SpecAnchor == InitAnchor /\ [][NextAnchor]_vars

\* coloring() on the graphs of Init and on the precolored graphs of up to
\* MaxPrecoloredVertices vertices
InitColoring ==
    \/ Init
    \/ InitGraph(MaxPrecoloredVertices) /\ m_has_precolored

SpecColoring == InitColoring /\ [][Next]_vars

----------------------------------------------------------------------------
(* post_refinement on its own: any graph, any colors apply_solution can    *)
(* write (two rounded bits), no precolored vertex                          *)

InitRefine ==
    /\ pc = "post_refinement"
    /\ numVertices \in 1 .. MaxRefineVertices
    /\ edges \in Graphs(numVertices)
    /\ color_num \in {"THREE", "FOUR"}
    /\ m_vColor \in [Vertices(numVertices) -> 0 .. 3]
    /\ m_has_precolored = FALSE
    /\ lb = << >>
    /\ ub = << >>
    /\ constrs = << >>
    /\ obj = << >>
    /\ X = << >>
    /\ prevInfo = UINT32_MAX
    /\ curInfo = UINT32_MAX
    /\ edgeIdx = 1
    /\ count = 0
    /\ refinerIters = 0
    /\ rounderIters = 0
    /\ NoDualMinCostFlow
    /\ NoOddCycleSearch

NextRefine ==
    \/ RefineColor
    \/ PostRefinementReturn

SpecRefine == InitRefine /\ [][NextRefine]_vars

----------------------------------------------------------------------------
(* get_odd_cycles, one iteration of its while loop per step *)

MaxCycleVertices == 5

\* the locals of get_odd_cycles as the record the DFS operators work on
DfsState ==
    [stack   |-> vVertexStack,
     dist    |-> vNodeDistColor,
     visited |-> vNodeVisited,
     inCycle |-> vInCycle,
     out     |-> vOddCyle]

\* lines 151-169: the state on entry to the while loop, root v
InitOddCycles ==
    /\ pc = "none"
    /\ numVertices \in 1 .. MaxCycleVertices
    /\ edges \in Graphs(numVertices)
    /\ color_num = "THREE"
    /\ m_vColor = [w \in Vertices(numVertices) |-> -1]
    /\ m_has_precolored = FALSE
    /\ lb = << >>
    /\ ub = << >>
    /\ constrs = << >>
    /\ obj = << >>
    /\ X = << >>
    /\ prevInfo = UINT32_MAX
    /\ curInfo = UINT32_MAX
    /\ edgeIdx = 1
    /\ count = 0
    /\ refinerIters = 0
    /\ rounderIters = 0
    /\ NoDualMinCostFlow
    /\ dfsPc = "while"
    /\ dfsRoot \in Vertices(numVertices)
    /\ vVertexStack = << dfsRoot >>
    /\ vNodeDistColor = [w \in Vertices(numVertices) |-> IF w = dfsRoot THEN 0 ELSE -1]
    /\ vNodeVisited = [w \in Vertices(numVertices) |-> w = dfsRoot]
    /\ vInCycle = [w \in Vertices(numVertices) |-> FALSE]
    /\ vOddCyle = << >>

\* the indices, in adjacent_vertices(cv), of the neighbors not seen yet
UnseenNeighbors(cv) ==
    { k \in 1 .. Len(Adjacent(edges, cv)) :
        vNodeDistColor[Adjacent(edges, cv)[k]] = -1 }

\* lines 170-191: an iteration that pushes the first unseen neighbor of cv
DfsPush ==
    /\ dfsPc = "while"
    /\ vVertexStack # << >>
    /\ LET cv == Top(vVertexStack)
           un == UnseenNeighbors(cv)
       IN  /\ un # {}
           /\ LET k  == CHOOSE k \in un : \A j \in un : k <= j
                  st == PushUnseen(DfsState, cv, Adjacent(edges, cv)[k])
              IN  /\ vVertexStack' = st.stack
                  /\ vNodeDistColor' = st.dist
                  /\ vNodeVisited' = st.visited
                  /\ vInCycle' = st.inCycle
                  /\ vOddCyle' = st.out
    /\ UNCHANGED <<dfsPc, dfsRoot>>
    /\ UNCHANGED <<colorVars, mcfVars>>

\* lines 170-226: an iteration that finds nothing to push: the scan for odd
\* cycles, then the pop of cv
DfsPop ==
    /\ dfsPc = "while"
    /\ vVertexStack # << >>
    /\ LET cv == Top(vVertexStack)
       IN  /\ UnseenNeighbors(cv) = {}
           /\ LET st == DetectOddCycles(DfsState, dfsRoot, cv,
                                        Adjacent(edges, cv), 1)
              IN  /\ vVertexStack' = SubSeq(st.stack, 1, Len(st.stack) - 1)
                  /\ vNodeDistColor' = st.dist
                  /\ vNodeVisited' = [st.visited EXCEPT ![cv] = FALSE]
                  /\ vInCycle' = st.inCycle
                  /\ vOddCyle' = st.out
    /\ UNCHANGED <<dfsPc, dfsRoot>>
    /\ UNCHANGED <<colorVars, mcfVars>>

\* line 170: the stack is empty, get_odd_cycles returns
DfsReturn ==
    /\ dfsPc = "while"
    /\ vVertexStack = << >>
    /\ dfsPc' = "done"
    /\ UNCHANGED <<dfsRoot, vVertexStack, vNodeDistColor, vNodeVisited,
                   vInCycle, vOddCyle>>
    /\ UNCHANGED <<colorVars, mcfVars>>

NextOddCycles ==
    \/ DfsPush
    \/ DfsPop
    \/ DfsReturn

SpecOddCycles == InitOddCycles /\ [][NextOddCycles]_vars

----------------------------------------------------------------------------
(* The odd-cycle constraints of lines 404-426 against integer colorings *)

\* the cycle 0, 1, ..., L - 1, 0 as an edge list and as a vertex list
CycleEdges(L) == EdgeSeq({ <<i, i + 1>> : i \in 0 .. L - 2 } \cup { <<0, L - 1>> })

CycleVertices(L) == [j \in 1 .. L |-> j - 1]

OddLengths(n) == { L \in 3 .. n : L % 2 = 1 }

\* the 0/1 point of a coloring, in the units of X: color = (b1 << 1) + b2
ColorPoint(n, col) ==
    [k \in ColorBits(n) |->
        IF k % 2 = 0 THEN 2 * (col[k \div 2] \div 2) ELSE 2 * (col[k \div 2] % 2)]

\* an odd cycle in a graph on numVertices vertices and any integer coloring
InitCuts ==
    /\ pc = "add_odd_cycle_constraints"
    /\ numVertices \in 3 .. MaxCycleVertices
    /\ edges \in { CycleEdges(L) : L \in OddLengths(numVertices) }
    /\ color_num \in {"THREE", "FOUR"}
    /\ m_vColor \in [Vertices(numVertices) ->
                        IF color_num = "THREE" THEN 0 .. 2 ELSE 0 .. 3]
    /\ m_has_precolored = FALSE
    /\ lb = [k \in ColorBits(numVertices) |-> 0]
    /\ ub = [k \in ColorBits(numVertices) |-> 2]
    /\ constrs = << >>
    /\ obj = [k \in ColorBits(numVertices) |-> 0]
    /\ X = ColorPoint(numVertices, m_vColor)
    /\ prevInfo = UINT32_MAX
    /\ curInfo = UINT32_MAX
    /\ edgeIdx = 1
    /\ count = 0
    /\ refinerIters = 0
    /\ rounderIters = 0
    /\ NoDualMinCostFlow
    /\ NoOddCycleSearch

\* lines 404-426: the four constraints of the cycle are added to the model
AddOddCycleConstraints ==
    /\ pc = "add_odd_cycle_constraints"
    /\ pc' = "cuts_added"
    /\ constrs' = constrs \o OddCycleConstraints(numVertices,
                                                 CycleVertices(Len(edges)))
    /\ UNCHANGED <<numVertices, edges, color_num, m_vColor, m_has_precolored,
                   lb, ub, obj, X, prevInfo, curInfo, edgeIdx, count,
                   refinerIters, rounderIters>>
    /\ UNCHANGED <<mcfVars, dfsVars>>

NextCuts == AddOddCycleConstraints

SpecCuts == InitCuts /\ [][NextCuts]_vars

----------------------------------------------------------------------------
(* adjust_variable_pair_in_objective on its own *)

MaxPairVertices == 2

\* the state of the loop of coloring() at line 470: a model without anchor,
\* any feasible solution and any objective accumulated so far
InitPair ==
    /\ pc = "adjust_variable_pair"
    /\ numVertices \in 1 .. MaxPairVertices
    /\ edges \in Graphs(numVertices)
    /\ color_num \in {"THREE", "FOUR"}
    /\ m_vColor = [w \in Vertices(numVertices) |-> -1]
    /\ m_has_precolored = FALSE
    /\ lb = [k \in ColorBits(numVertices) |-> 0]
    /\ ub = [k \in ColorBits(numVertices) |-> 2]
    /\ constrs = EdgeConstraints(numVertices, edges, 1)
                    \o (IF color_num = "THREE"
                        THEN ThreeColorConstraints(numVertices) ELSE << >>)
    /\ obj \in [ColorBits(numVertices) -> {-1, 0, 1}]
    /\ X \in Feasible(lb, ub, constrs)
    /\ prevInfo = UINT32_MAX
    /\ curInfo = non_integer_num(X)
    /\ edgeIdx = 1
    /\ count = 0
    /\ refinerIters = 0
    /\ rounderIters = 0
    /\ NoDualMinCostFlow
    /\ NoOddCycleSearch

\* line 470: the call adjust_variable_pair_in_objective(vColorBits, obj)
AdjustVariablePair ==
    /\ pc = "adjust_variable_pair"
    /\ obj' = adjust_variable_pair_in_objective(numVertices, X, obj)
    /\ pc' = "adjust_conflict_edge"
    /\ UNCHANGED <<numVertices, edges, color_num, m_vColor, m_has_precolored,
                   lb, ub, constrs, X, prevInfo, curInfo, edgeIdx, count,
                   refinerIters, rounderIters>>
    /\ UNCHANGED <<mcfVars, dfsVars>>

NextPair == AdjustVariablePair

SpecPair == InitPair /\ [][NextPair]_vars

----------------------------------------------------------------------------
(* DualMinCostFlow: the linear model it is constructed from.  The source   *)
(* of the member functions is not part of limbo/solvers/DualMinCostFlow.h; *)
(* they follow the derivation in the header's class comment and the        *)
(* description of the reduction.                                           *)

\* number of variables x_1 .. x_n of the linear model
NumVars == 2

\* largest magnitude of an objective coefficient c_i
MaxCoef == 1

\* largest magnitude of a bound d_i, u_i
MaxBound == 1

\* largest magnitude of a right-hand side b_ij
MaxRhs == 1

\* most differential constraints of a model
MaxConstrs == 2

\* most arcs of the flow graph of a model
MaxArcs == 4

\* nodes of the flow graph: node i for x_i, node 0 for y_0
Nodes == 0 .. NumVars

Abs(a) == IF a < 0 THEN -a ELSE a

\* a variable without bounds; otherwise <<d_i, u_i>>
NoBound == << >>

VarBounds ==
    {NoBound} \cup { p \in (-MaxBound .. MaxBound) \X (-MaxBound .. MaxBound) :
                       p[1] <= p[2] }

\* <<i, j, b>> is x_i - x_j >= b
DiffConstraints ==
    { k \in (1 .. NumVars) \X (1 .. NumVars) \X (-MaxRhs .. MaxRhs) :
        k[1] # k[2] }

ConstraintKey(k) ==
    (k[1] * (NumVars + 1) + k[2]) * (2 * MaxRhs + 1) + k[3] + MaxRhs

\* the constraints of the model in the order they are iterated
RECURSIVE ConstraintSeq(_)
ConstraintSeq(S) ==
    IF S = {} THEN << >>
    ELSE LET m == CHOOSE k \in S :
                    \A o \in S : ConstraintKey(k) <= ConstraintKey(o)
         IN  <<m>> \o ConstraintSeq(S \ {m})

BoundedVars(bound) == { i \in DOMAIN bound : bound[i] # NoBound }

\* arcs the model maps to: one per constraint, two per bounded variable
NumArcs(model) == Len(model.cons) + 2 * Cardinality(BoundedVars(model.bound))

\* the linear models of n variables
Models(n) ==
    { model \in
        [ c : [1 .. n -> -MaxCoef .. MaxCoef],
          bound : [1 .. n -> VarBounds],
          cons : { ConstraintSeq(S) : S \in { T \in SUBSET DiffConstraints :
                                                Cardinality(T) <= MaxConstrs } },
          sol : { [i \in 1 .. n |-> 0] } ] :
        NumArcs(model) <= MaxArcs }

\* x satisfies every differential constraint and every bound of the model
SatisfiesModel(model, x) ==
    /\ \A k \in DOMAIN model.cons :
          x[model.cons[k][1]] - x[model.cons[k][2]] >= model.cons[k][3]
    /\ \A i \in BoundedVars(model.bound) :
          model.bound[i][1] <= x[i] /\ x[i] <= model.bound[i][2]

\* every feasible model has a solution in this box
SolutionBox == [1 .. NumVars -> -(MaxBound + NumVars * MaxRhs) .. (MaxBound + NumVars * MaxRhs)]

FeasibleModel(model) == \E x \in SolutionBox : SatisfiesModel(model, x)

ObjectiveOf(model, x) == SumOver([i \in 1 .. NumVars |-> model.c[i] * x[i]], 1 .. NumVars)

----------------------------------------------------------------------------
(* DualMinCostFlow: building the flow graph *)

\* head-room of big M over the magnitudes of the model: more than the
\* largest amount of flow, the sum of the objective coefficients
HeadRoom == NumVars * MaxCoef + 1

\* prepare: big M, the sum of the absolute bounds and right-hand sides
\* with head-room
BigM(model) ==
    HeadRoom
    + SumOver([i \in 1 .. NumVars |->
                 IF model.bound[i] = NoBound THEN 0
                 ELSE Abs(model.bound[i][1]) + Abs(model.bound[i][2])],
              1 .. NumVars)
    + SumOver([k \in DOMAIN model.cons |-> Abs(model.cons[k][3])],
              DOMAIN model.cons)

\* the flow graph under construction
FlowGraph ==
    [graph |-> m_graph, upper |-> m_mUpper, cost |-> m_mCost,
     supply |-> m_mSupply, reversed |-> m_reversedArcFlowCost]

\* arc reversal that keeps no account of the reversed arc's flow cost
addArcForDiffConstraintUntallied(g, xi, xj, cij, bigM) ==
    IF cij <= 0
    THEN [g EXCEPT !.graph = Append(@, <<xi, xj>>),
                   !.cost = Append(@, -cij),
                   !.upper = Append(@, bigM)]
    ELSE [g EXCEPT !.graph = Append(@, <<xj, xi>>),
                   !.cost = Append(@, cij),
                   !.upper = Append(@, bigM),
                   !.supply = [@ EXCEPT ![xi] = @ - bigM, ![xj] = @ + bigM]]

\* arc reversal that leaves the supply of x_j as it was
addArcForDiffConstraintUnbalanced(g, xi, xj, cij, bigM) ==
    IF cij <= 0
    THEN [g EXCEPT !.graph = Append(@, <<xi, xj>>),
                   !.cost = Append(@, -cij),
                   !.upper = Append(@, bigM)]
    ELSE [g EXCEPT !.graph = Append(@, <<xj, xi>>),
                   !.cost = Append(@, cij),
                   !.upper = Append(@, bigM),
                   !.supply = [@ EXCEPT ![xi] = @ - bigM],
                   !.reversed = @ - cij]

\* x_i - x_j >= c_ij: an arc from i to j with cost -c_ij, capped at big M.
\* A negative cost is resolved by arc reversal: the arc from j to i with
\* cost c_ij stands for big M units less the flow from i to j
addArcForDiffConstraint(g, xi, xj, cij, bigM) ==
    IF cij <= 0
    THEN [g EXCEPT !.graph = Append(@, <<xi, xj>>),
                   !.cost = Append(@, -cij),
                   !.upper = Append(@, bigM)]
    ELSE [g EXCEPT !.graph = Append(@, <<xj, xi>>),
                   !.cost = Append(@, cij),
                   !.upper = Append(@, bigM),
                   !.supply = [@ EXCEPT ![xi] = @ - bigM, ![xj] = @ + bigM],
                   !.reversed = @ - cij]

\* node supply c'_i: c_i for x_i and the negated sum for y_0
ObjectiveSupply(model) ==
    [v \in Nodes |->
        IF v = 0
        THEN -SumOver([i \in 1 .. NumVars |-> model.c[i]], 1 .. NumVars)
        ELSE model.c[v]]

----------------------------------------------------------------------------
(* MinCostFlowSolver: the external engine.  Given supplies, capacities and *)
(* costs it returns a status, a flow of least cost among the feasible      *)
(* flows, and node potentials for which that flow satisfies the            *)
(* complementary slackness conditions; which optimal flow and which        *)
(* potentials is left to the engine.                                       *)

\* range of the node potentials the engine returns
MaxPotential == 2

Outflow(g, f, v) ==
    SumOver([a \in DOMAIN f |-> IF g.graph[a][1] = v THEN f[a] ELSE 0], DOMAIN f)

Inflow(g, f, v) ==
    SumOver([a \in DOMAIN f |-> IF g.graph[a][2] = v THEN f[a] ELSE 0], DOMAIN f)

\* flows within the capacities that meet every node supply
FeasibleFlows(g, bigM) ==
    { f \in [DOMAIN g.graph -> 0 .. bigM] :
        /\ \A a \in DOMAIN f : f[a] <= g.upper[a]
        /\ \A v \in Nodes : Outflow(g, f, v) - Inflow(g, f, v) = g.supply[v] }

FlowCost(g, f) == SumOver([a \in DOMAIN f |-> g.cost[a] * f[a]], DOMAIN f)

\* reduced cost of arc a, c_ij + pi_i - pi_j
ReducedCost(g, pot, a) == g.cost[a] + pot[g.graph[a][1]] - pot[g.graph[a][2]]

\* c^pi > 0 implies f = 0, and c^pi < 0 implies f = u
ComplementarySlackness(g, f, pot) ==
    \A a \in DOMAIN f :
        /\ ReducedCost(g, pot, a) > 0 => f[a] = 0
        /\ ReducedCost(g, pot, a) < 0 => f[a] = g.upper[a]

\* potentials the engine may return with the optimal flow f
OptimalPotentials(g, f) ==
    { pot \in [Nodes -> -MaxPotential .. MaxPotential] :
        ComplementarySlackness(g, f, pot) }

EngineResults(g, bigM) ==
    LET flows == FeasibleFlows(g, bigM)
        costs == { FlowCost(g, f) : f \in flows }
        best  == CHOOSE c \in costs : \A d \in costs : c <= d
    IN  IF flows = {}
        THEN { [status |-> "INFEASIBLE", flow |-> << >>,
                potential |-> [v \in Nodes |-> 0], cost |-> 0] }
        ELSE UNION { { [status |-> "OPTIMAL", flow |-> f, potential |-> pot,
                        cost |-> best] : pot \in OptimalPotentials(g, f) } :
                     f \in { h \in flows : FlowCost(g, h) = best } }

----------------------------------------------------------------------------
(* DualMinCostFlow::solve(), step by step *)

\* no LPColoring object exists while DualMinCostFlow runs
NoLPColoring ==
    /\ pc = "none"
    /\ numVertices = 0
    /\ edges = << >>
    /\ color_num = "THREE"
    /\ m_vColor = << >>
    /\ m_has_precolored = FALSE
    /\ lb = << >>
    /\ ub = << >>
    /\ constrs = << >>
    /\ obj = << >>
    /\ X = << >>
    /\ prevInfo = UINT32_MAX
    /\ curInfo = UINT32_MAX
    /\ edgeIdx = 1
    /\ count = 0
    /\ refinerIters = 0
    /\ rounderIters = 0

InitMCF ==
    /\ NoLPColoring
    /\ NoOddCycleSearch
    /\ mcfPc = "prepare"
    /\ m_model \in Models(NumVars)
    /\ m_graph = << >>
    /\ m_mUpper = << >>
    /\ m_mCost = << >>
    /\ m_mSupply = [v \in Nodes |-> 0]
    /\ m_totalFlowCost = 0
    /\ m_bigM = 0
    /\ m_reversedArcFlowCost = 0
    /\ m_mFlow = << >>
    /\ m_mPotential = [v \in Nodes |-> 0]
    /\ engineStatus = "NONE"
    /\ returnStatus = "NONE"
    /\ conIdx = 1
    /\ bndIdx = 1
    /\ numApplied = 0

SetFlowGraph(g) ==
    /\ m_graph' = g.graph
    /\ m_mUpper' = g.upper
    /\ m_mCost' = g.cost
    /\ m_mSupply' = g.supply
    /\ m_reversedArcFlowCost' = g.reversed

prepare ==
    /\ mcfPc = "prepare"
    /\ m_bigM' = BigM(m_model)
    /\ m_reversedArcFlowCost' = 0
    /\ mcfPc' = "mapObjective2Graph"
    /\ UNCHANGED <<colorVars, dfsVars>>
    /\ UNCHANGED <<m_model, m_graph, m_mUpper, m_mCost, m_mSupply,
                   m_totalFlowCost, m_mFlow, m_mPotential, engineStatus,
                   returnStatus, conIdx, bndIdx, numApplied>>

mapObjective2Graph ==
    /\ mcfPc = "mapObjective2Graph"
    /\ m_mSupply' = ObjectiveSupply(m_model)
    /\ mcfPc' = "mapDiffConstraint2Graph"
    /\ UNCHANGED <<colorVars, dfsVars>>
    /\ UNCHANGED <<m_model, m_graph, m_mUpper, m_mCost, m_totalFlowCost, m_bigM,
                   m_reversedArcFlowCost, m_mFlow, m_mPotential, engineStatus,
                   returnStatus, conIdx, bndIdx, numApplied>>

\* one constraint x_i - x_j >= b_ij of the model per step
mapDiffConstraint2Graph ==
    /\ mcfPc = "mapDiffConstraint2Graph"
    /\ IF conIdx <= Len(m_model.cons)
       THEN LET k == m_model.cons[conIdx]
            IN  /\ SetFlowGraph(addArcForDiffConstraint(FlowGraph, k[1], k[2],
                                                        k[3], m_bigM))
                /\ conIdx' = conIdx + 1
                /\ mcfPc' = mcfPc
       ELSE /\ mcfPc' = "mapBoundConstraint2Graph"
            /\ UNCHANGED <<m_graph, m_mUpper, m_mCost, m_mSupply,
                           m_reversedArcFlowCost, conIdx>>
    /\ UNCHANGED <<colorVars, dfsVars>>
    /\ UNCHANGED <<m_model, m_totalFlowCost, m_bigM, m_mFlow, m_mPotential,
                   engineStatus, returnStatus, bndIdx, numApplied>>

\* one bound per step: x_i - y_0 >= d_i, then y_0 - x_i >= -u_i
mapBoundConstraint2Graph ==
    /\ mcfPc = "mapBoundConstraint2Graph"
    /\ IF bndIdx <= 2 * NumVars
       THEN LET i == (bndIdx + 1) \div 2
                b == m_model.bound[i]
            IN  /\ IF b = NoBound
                   THEN UNCHANGED <<m_graph, m_mUpper, m_mCost, m_mSupply,
                                    m_reversedArcFlowCost>>
                   ELSE IF bndIdx % 2 = 1
                        THEN SetFlowGraph(addArcForDiffConstraint(
                                 FlowGraph, i, 0, b[1], m_bigM))
                        ELSE SetFlowGraph(addArcForDiffConstraint(
                                 FlowGraph, 0, i, -b[2], m_bigM))
                /\ bndIdx' = bndIdx + 1
                /\ mcfPc' = mcfPc
       ELSE /\ mcfPc' = "solver"
            /\ UNCHANGED <<m_graph, m_mUpper, m_mCost, m_mSupply,
                           m_reversedArcFlowCost, bndIdx>>
    /\ UNCHANGED <<colorVars, dfsVars>>
    /\ UNCHANGED <<m_model, m_totalFlowCost, m_bigM, m_mFlow, m_mPotential,
                   engineStatus, returnStatus, conIdx, numApplied>>

\* the solution is applied whatever the engine reported
ShouldApplyAlways(status) == TRUE

\* the solution is applied only when the engine reported OPTIMAL
ShouldApply(status) == status = "OPTIMAL"

\* solver->operator()(this): the engine runs on the graph and stores flow,
\* potentials and total flow cost
runSolver ==
    /\ mcfPc = "solver"
    /\ \E r \in EngineResults(FlowGraph, m_bigM) :
          /\ engineStatus' = r.status
          /\ m_mFlow' = r.flow
          /\ m_mPotential' = r.potential
          /\ m_totalFlowCost' = r.cost
          /\ mcfPc' = IF ShouldApply(r.status) THEN "applySolution" ELSE "return"
    /\ UNCHANGED <<colorVars, dfsVars>>
    /\ UNCHANGED <<m_model, m_graph, m_mUpper, m_mCost, m_mSupply, m_bigM,
                   m_reversedArcFlowCost, returnStatus, conIdx, bndIdx,
                   numApplied>>

\* x_i = pi_i - pi_0
DecodedSolution(pot) == [i \in 1 .. NumVars |-> pot[i] - pot[0]]

applySolution ==
    /\ mcfPc = "applySolution"
    /\ m_model' = [m_model EXCEPT !.sol = DecodedSolution(m_mPotential)]
    /\ numApplied' = numApplied + 1
    /\ mcfPc' = "return"
    /\ UNCHANGED <<colorVars, dfsVars>>
    /\ UNCHANGED <<m_graph, m_mUpper, m_mCost, m_mSupply, m_totalFlowCost,
                   m_bigM, m_reversedArcFlowCost, m_mFlow, m_mPotential,
                   engineStatus, returnStatus, conIdx, bndIdx>>

\* solve returns the status of the engine
solveReturn ==
    /\ mcfPc = "return"
    /\ returnStatus' = engineStatus
    /\ mcfPc' = "done"
    /\ UNCHANGED <<colorVars, dfsVars>>
    /\ UNCHANGED <<m_model, m_graph, m_mUpper, m_mCost, m_mSupply,
                   m_totalFlowCost, m_bigM, m_reversedArcFlowCost, m_mFlow,
                   m_mPotential, engineStatus, conIdx, bndIdx, numApplied>>

\* total cost of the original LP problem: the total flow cost with the
\* flow cost of the reversed arcs
totalCost == m_totalFlowCost + m_reversedArcFlowCost * m_bigM

NextMCF ==
    \/ prepare
    \/ mapObjective2Graph
    \/ mapDiffConstraint2Graph
    \/ mapBoundConstraint2Graph
    \/ runSolver
    \/ applySolution
    \/ solveReturn

SpecMCF == InitMCF /\ [][NextMCF]_vars

----------------------------------------------------------------------------
(* Properties *)

\* the edges whose two endpoints hold the same color
SameColorEdges(es, col) == { k \in 1 .. Len(es) : col[es[k][1]] = col[es[k][2]] }

ValidColors(cn) == IF cn = "THREE" THEN 0 .. 2 ELSE 0 .. 3

\* the point that gives the code (b1, b2) to both endpoints of the edge e
SameCodePoint(n, e, b1, b2) ==
    [k \in ColorBits(n) |->
        IF k \in {2 * e[1], 2 * e[2]} THEN 2 * b1
        ELSE IF k \in {2 * e[1] + 1, 2 * e[2] + 1} THEN 2 * b2
        ELSE 0]

\* C1: once set_optimize_model has run, for every edge and every 0/1 code
\* given to both of its endpoints, one of the four cover constraints emitted
\* for that edge is violated.
C1_CoverForbidsSameCode ==
    pc # "set_optimize_model" =>
        \A e \in 1 .. Len(edges) : \A b1 \in 0 .. 1 : \A b2 \in 0 .. 1 :
            \E j \in (4 * (e - 1) + 1) .. (4 * e) :
                ~Satisfies(constrs[j], SameCodePoint(numVertices, edges[e], b1, b2))

C1_Witness ==
    /\ pc = "set_anchor"
    /\ Len(edges) = 3
    /\ Len(constrs) >= 12

\* C2: right after apply_solution every vertex color is in {0,1,2} when
\* color_num is THREE and in {0,1,2,3} when it is FOUR.
C2_ColorsInRange ==
    (pc = "post_refinement" /\ edgeIdx = 1) =>
        \A v \in Vertices(numVertices) : m_vColor[v] \in ValidColors(color_num)

\* C3: with no precolored vertex, a refine_color call of post_refinement never
\* raises the number of edges whose endpoints hold the same color.
C3_ConflictsNeverIncrease ==
    [][ (pc = "post_refinement" /\ ~m_has_precolored) =>
          Cardinality(SameColorEdges(edges, m_vColor'))
            <= Cardinality(SameColorEdges(edges, m_vColor)) ]_vars

\* C4: for the triangle with color_num THREE and no precoloring, the colors
\* held when coloring() returns are in {0,1,2} and differ along every edge.
C4_TriangleValidColoring ==
    ( /\ pc = "done"
      /\ numVertices = 3
      /\ Len(edges) = 3
      /\ color_num = "THREE"
      /\ ~m_has_precolored ) =>
        /\ \A v \in Vertices(numVertices) : m_vColor[v] \in 0 .. 2
        /\ SameColorEdges(edges, m_vColor) = {}

\* C10: the body of the loop of coloring() and the body of the loop of
\* rounding_with_binding_analysis are each executed at most 2|V| times, and
\* once a loop condition is false the function goes on to its end.
C10_LoopsBounded ==
    /\ refinerIters <= 2 * numVertices
    /\ rounderIters <= 2 * numVertices

C10_Witness ==
    /\ pc = "done"
    /\ refinerIters >= 2
    /\ rounderIters >= 1

\* the engine has run and reported OPTIMAL
SolvedOptimal ==
    mcfPc \in {"applySolution", "return", "done"} /\ engineStatus = "OPTIMAL"

\* C5: after every arc addition through addArcForDiffConstraint
\* (differential constraints, lower bounds, upper bounds, negative-cost
\* arcs inverted) every arc cost is >= 0 and the node supplies, y0
\* included, sum to 0
C5_CostsNonNegativeSupplyBalanced ==
    /\ \A a \in DOMAIN m_mCost : m_mCost[a] >= 0
    /\ SumOver(m_mSupply, DOMAIN m_mSupply) = 0

\* all arcs are added, among them a reversed arc of a differential
\* constraint and a reversed arc of a bound
C5_Witness ==
    /\ mcfPc = "solver"
    /\ \E k \in DOMAIN m_model.cons : m_model.cons[k][3] > 0
    /\ \E i \in BoundedVars(m_model.bound) :
          m_model.bound[i][1] > 0 \/ m_model.bound[i][2] < 0
    /\ \E a \in DOMAIN m_mCost : m_mCost[a] > 0
    /\ \E v \in Nodes : m_mSupply[v] # 0

C7_DecodedSolutionSatisfiesModel ==
    (mcfPc = "done" /\ returnStatus = "OPTIMAL") =>
        SatisfiesModel(m_model, m_model.sol)

C9_InfeasibleSystemReported ==
    ( /\ mcfPc = "done"
      /\ m_model.cons = << <<1, 2, 1>>, <<2, 1, 1>> >>
      /\ BoundedVars(m_model.bound) = {} ) =>
        returnStatus = "INFEASIBLE"

\* a vertex of highest degree with the lowest index among ties
HighestDegreeLowestIndex(a) ==
    /\ \A v \in Vertices(numVertices) : Degree(edges, v) <= Degree(edges, a)
    /\ \A v \in Vertices(numVertices) :
          v < a => Degree(edges, v) < Degree(edges, a)

\* C11: set_anchor, when no vertex is precolored, sets the lower and upper
\* bounds of both color bits of exactly one vertex to 0, the vertex of
\* highest degree with the lowest index among ties, and changes no other
\* bound; when a vertex is precolored it changes no bound.
C11_AnchorOnlyWithoutPrecolor ==
    [][ pc = "set_anchor" =>
          IF m_has_precolored
          THEN lb' = lb /\ ub' = ub
          ELSE \E a \in Vertices(numVertices) :
                 /\ HighestDegreeLowestIndex(a)
                 /\ \A k \in ColorBits(numVertices) :
                       IF k \in {2 * a, 2 * a + 1}
                       THEN lb'[k] = 0 /\ ub'[k] = 0
                       ELSE lb'[k] = lb[k] /\ ub'[k] = ub[k] ]_vars

\* set_anchor has run without precolored vertices on a graph in which
\* vertex 0 is not of highest degree
C11_Witness ==
    /\ pc = "optimize"
    /\ ~m_has_precolored
    /\ Degree(edges, 0) < Degree(edges, 1)
    /\ ub[0] = 2
    /\ ub[2] = 0 /\ ub[3] = 0

\* C12: on the graph of two vertices joined by one edge with vertex 0
\* precolored to 1, coloring() leaves vertex 0 with color 1 and vertex 1 with
\* a color other than 1, whatever solution the engine returned.  The colors
\* apply_solution writes are final: post_refinement returns at once when a
\* vertex is precolored.
C12_PrecolorKept ==
    [][ ( /\ pc = "rounder" /\ pc' = "post_refinement"
          /\ numVertices = 2
          /\ edges = << <<0, 1>> >>
          /\ m_vColor[0] = 1 /\ m_vColor[1] = -1 ) =>
        (m_vColor'[0] = 1 /\ m_vColor'[1] # 1) ]_vars

\* C13: at every optimize call of coloring(), the first one and the one of
\* each refiner iteration, the LP is feasible, in THREE and FOUR mode, with
\* and without anchor: the assertion "model is infeasible" is never reached.
C13_NeverInfeasible == pc # "infeasible"

\* the optimize call of a refiner iteration has returned on a graph with an
\* edge and no anchor
C13_Witness ==
    /\ pc = "refiner"
    /\ refinerIters >= 1
    /\ m_has_precolored
    /\ Len(edges) >= 1

\* the undirected edge between a and b is in the graph
HasEdge(a, b) ==
    \E k \in 1 .. Len(edges) : edges[k] \in { <<a, b>>, <<b, a>> }

\* the root lies on a triangle or on a pentagon of the graph
RootOnTriangle ==
    \E a, b \in Vertices(numVertices) :
        /\ Cardinality({dfsRoot, a, b}) = 3
        /\ HasEdge(dfsRoot, a) /\ HasEdge(a, b) /\ HasEdge(b, dfsRoot)

RootOnPentagon ==
    \E a, b, c, d \in Vertices(numVertices) :
        /\ Cardinality({dfsRoot, a, b, c, d}) = 5
        /\ HasEdge(dfsRoot, a) /\ HasEdge(a, b) /\ HasEdge(b, c)
        /\ HasEdge(c, d) /\ HasEdge(d, dfsRoot)

\* C14: for a root v that lies on an odd cycle of the graph (a vertex of a
\* triangle or of a pentagon), get_odd_cycles(v) returns at least one cycle.
C14_OddCycleThroughRootReturned ==
    (dfsPc = "done" /\ (RootOnTriangle \/ RootOnPentagon)) => Len(vOddCyle) >= 1

\* C15: in get_odd_cycles every vertex on the stack is marked visited and any
\* two consecutive stack entries have opposite distance parity (a pushed
\* neighbor u of cv gets the parity opposite to cv's and its visited flag set).
C15_StackVisitedAlternating ==
    dfsPc = "while" =>
        \A k \in 1 .. Len(vVertexStack) :
            /\ vNodeVisited[vVertexStack[k]]
            /\ k > 1 => vNodeDistColor[vVertexStack[k]]
                            # vNodeDistColor[vVertexStack[k - 1]]

\* C16: for every odd cycle of length L and every assignment of 2-bit colors
\* in which adjacent cycle vertices differ, the four constraints added for the
\* cycle (sum of bit i >= 1 and sum of bit i <= L - 1, i in {0, 1}) hold.
C16_CutsKeepProperColorings ==
    (pc = "cuts_added" /\ SameColorEdges(edges, m_vColor) = {}) =>
        /\ Len(constrs) = 4
        /\ \A j \in 1 .. Len(constrs) : Satisfies(constrs[j], X)

\* the constraints of a pentagon inside which colors 0, 1, 2 are used
C16_Witness ==
    /\ pc = "cuts_added"
    /\ Len(edges) = 5
    /\ SameColorEdges(edges, m_vColor) = {}
    /\ color_num = "THREE"
    /\ Len(constrs) = 4

\* the bounds of the pair of vertex i differ before and after the step
PairBoundsChanged(i) ==
    \/ lb'[2 * i] # lb[2 * i] \/ ub'[2 * i] # ub[2 * i]
    \/ lb'[2 * i + 1] # lb[2 * i + 1] \/ ub'[2 * i + 1] # ub[2 * i + 1]

\* the binding constraints in which a bit of vertex i appears
BindingOfPair(i) ==
    { j \in 1 .. Len(constrs) :
        /\ Binding(constrs[j], X)
        /\ constrs[j].coeff[2 * i] # 0 \/ constrs[j].coeff[2 * i + 1] # 0 }

\* twice Delta of constraint j for the values the bounds of the pair of
\* vertex i are fixed to after the step
DeltaOfFix(j, i) ==
    constrs[j].coeff[2 * i] * (lb'[2 * i] - X[2 * i])
        + constrs[j].coeff[2 * i + 1] * (lb'[2 * i + 1] - X[2 * i + 1])

\* C17: when rounding_with_binding_analysis fixes the bounds of a pair at
\* (0.5, 0.5) to a candidate, Delta of the candidate is >= 0 for every binding
\* >= constraint and <= 0 for every binding <= constraint in which a bit of
\* the pair appears; a pair aborted by failFlag or left with no valid
\* candidate keeps its bounds.
C17_FixedCandidateKeepsBindingConstraints ==
    [][ (pc = "rounder" /\ rounderIters' = rounderIters + 1) =>
          \A i \in Vertices(numVertices) :
             (X[2 * i] = 1 /\ X[2 * i + 1] = 1) =>
                LET r == ScanPair(constrs, X, color_num, 2 * i)
                IN  /\ PairBoundsChanged(i) =>
                          /\ lb'[2 * i] = ub'[2 * i]
                          /\ lb'[2 * i + 1] = ub'[2 * i + 1]
                          /\ \A j \in BindingOfPair(i) :
                                IF constrs[j].sense = ">"
                                THEN DeltaOfFix(j, i) >= 0
                                ELSE DeltaOfFix(j, i) <= 0
                    /\ (r.failFlag \/ \A b \in DOMAIN r.valid : ~r.valid[b]) =>
                          ~PairBoundsChanged(i) ]_vars

\* the rounder has fixed the pair of a vertex at (0.5, 0.5) that appears in a
\* binding constraint
C17_Witness ==
    /\ pc = "rounder"
    /\ rounderIters = 1
    /\ \E i \in Vertices(numVertices) :
          /\ X[2 * i] = 1 /\ X[2 * i + 1] = 1
          /\ lb[2 * i] = ub[2 * i] /\ lb[2 * i + 1] = ub[2 * i + 1]
          /\ BindingOfPair(i) # {}

\* the candidates that survive the scan of the pair of vertex i
Surviving(i) ==
    LET r == ScanPair(constrs, X, color_num, 2 * i)
    IN  IF r.failFlag THEN {} ELSE { b \in DOMAIN r.valid : r.valid[b] }

\* (b1, b2) is lexicographically not after (d1, d2)
LexLeq(b, d) == b[1] < d[1] \/ (b[1] = d[1] /\ b[2] <= d[2])

\* C18: a pair at (0.5, 0.5) that survives the scan with one or more valid
\* candidates has the lower and upper bounds of both bits fixed to the
\* lexicographically smallest surviving candidate.
C18_SmallestSurvivingCandidateFixed ==
    [][ (pc = "rounder" /\ rounderIters' = rounderIters + 1) =>
          \A i \in Vertices(numVertices) :
             (X[2 * i] = 1 /\ X[2 * i + 1] = 1 /\ Surviving(i) # {}) =>
                \E b \in Surviving(i) :
                   /\ \A d \in Surviving(i) : LexLeq(b, d)
                   /\ lb'[2 * i] = 2 * b[1] /\ ub'[2 * i] = 2 * b[1]
                   /\ lb'[2 * i + 1] = 2 * b[2] /\ ub'[2 * i + 1] = 2 * b[2] ]_vars

\* C19: the LP is optimized again after the rounder has tightened the bounds,
\* so that apply_solution reads every pair the rounder fixed to (b1, b2) back
\* as (b1, b2): the vertex gets the color (b1 << 1) + b2.
C19_FixedPairsReadBack ==
    [][ (pc = "rounder" /\ pc' = "post_refinement" /\ rounderIters >= 1) =>
          \A i \in Vertices(numVertices) :
             ( /\ X[2 * i] = 1 /\ X[2 * i + 1] = 1
               /\ lb[2 * i] = ub[2 * i] /\ lb[2 * i + 1] = ub[2 * i + 1] ) =>
                m_vColor'[i] = lb[2 * i] + (lb[2 * i + 1] \div 2) ]_vars

\* after the step, vertex a holds a color none of its neighbors but b holds
FreeOfOtherNeighbors(a, b) ==
    \A u \in AdjacentSet(edges, a) \ {b} : m_vColor'[u] # m_vColor'[a]

\* C20: refine_color(e) changes no color and returns false when the endpoints
\* of e differ; when it returns true the endpoints differ afterwards and
\* neither shares its new color with any of its other neighbors; the colors
\* of all other vertices are unchanged.
C20_RefineColorResolvesEdge ==
    [][ (pc = "post_refinement" /\ edgeIdx' = edgeIdx + 1) =>
          LET v0 == edges[edgeIdx][1]
              v1 == edges[edgeIdx][2]
          IN  /\ m_vColor[v0] # m_vColor[v1] =>
                    (m_vColor' = m_vColor /\ count' = count)
              /\ count' = count + 1 =>
                    /\ m_vColor'[v0] # m_vColor'[v1]
                    /\ FreeOfOtherNeighbors(v0, v1)
                    /\ FreeOfOtherNeighbors(v1, v0)
              /\ \A w \in Vertices(numVertices) \ {v0, v1} :
                    m_vColor'[w] = m_vColor[w] ]_vars

\* the pair of vertex i has a non-integer value
NonIntegerPair(i) == ~is_integer(X[2 * i]) \/ ~is_integer(X[2 * i + 1])

\* the step adds t on bit 1 of vertex i and -t on bit 2
PairTermAdded(i, t) ==
    /\ obj'[2 * i] = obj[2 * i] + t
    /\ obj'[2 * i + 1] = obj[2 * i + 1] - t

\* C21, as stated: for every vertex with a non-integer pair (v1, v2),
\* adjust_variable_pair_in_objective adds v2 - v1 if v1 > v2 and v1 - v2
\* otherwise, equal values included; an all-integer pair adds nothing; no
\* constraint and no bound changes.
C21_PairTermElse ==
    [][ pc = "adjust_variable_pair" =>
          /\ \A i \in Vertices(numVertices) :
                IF NonIntegerPair(i)
                THEN IF X[2 * i] > X[2 * i + 1]
                     THEN PairTermAdded(i, -1)
                     ELSE PairTermAdded(i, 1)
                ELSE PairTermAdded(i, 0)
          /\ constrs' = constrs /\ lb' = lb /\ ub' = ub ]_vars

\* C21, amended: for every vertex with a non-integer pair (v1, v2),
\* adjust_variable_pair_in_objective adds v2 - v1 if v1 > v2, v1 - v2 if
\* v1 < v2, and nothing if v1 = v2 (the pair (0.5, 0.5)); an all-integer
\* pair adds nothing; no constraint and no bound changes.
C21_PairTermStrict ==
    [][ pc = "adjust_variable_pair" =>
          /\ \A i \in Vertices(numVertices) :
                IF NonIntegerPair(i)
                THEN IF X[2 * i] > X[2 * i + 1]
                     THEN PairTermAdded(i, -1)
                     ELSE IF X[2 * i] < X[2 * i + 1]
                     THEN PairTermAdded(i, 1)
                     ELSE PairTermAdded(i, 0)
                ELSE PairTermAdded(i, 0)
          /\ constrs' = constrs /\ lb' = lb /\ ub' = ub ]_vars

\* the call has returned on a solution with the pair (1, 0.5) at vertex 0 and
\* (0.5, 0.5) at vertex 1, from the zero objective
C21_Witness ==
    /\ pc = "adjust_conflict_edge"
    /\ numVertices = 2
    /\ X[0] = 2 /\ X[1] = 1 /\ X[2] = 1 /\ X[3] = 1
    /\ obj[0] = -1 /\ obj[1] = 1 /\ obj[2] = 0 /\ obj[3] = 0

====
